---------------------------- MODULE Spec2Model ----------------------------
(***************************************************************************)
(* Model of the SecOps agent (agentcore/runtime/secops-agent) and of the   *)
(* response extraction of the bulk analysis agent.                         *)
(*                                                                         *)
(* Text is a sequence of tokens.  A token is a TLA+ string standing for a  *)
(* run of characters: the JSON punctuation  { } [ ] : ,  the double quote, *)
(* the markdown fence (three backticks), the word json, a number literal,  *)
(* the literals null/true/false, or any other run of characters.  White    *)
(* space between tokens is not modelled: json.loads, str.split on a fence  *)
(* and the regular expression of parse_json_response do not depend on it.  *)
(* A Python str value is modelled the same way, as a sequence of tokens.   *)
(*                                                                         *)
(* A JSON value (what json.loads returns) is a tagged record [k, v].       *)
(***************************************************************************)
EXTENDS Integers, Sequences, FiniteSets, TLC

----------------------------------------------------------------------------
(* Tokens *)

QUOTE == "\""
\* the two characters json.dumps writes for a double quote inside a string
ESCQUOTE == "\\\""
\* the markdown fence: three backticks
FENCE == "<fence>"
JSONTAG == "json"

----------------------------------------------------------------------------
(* JSON values as Python sees them *)

JNull == [k |-> "null", v |-> 0]
JBool(b) == [k |-> "bool", v |-> b]
JInt(n) == [k |-> "int", v |-> n]
\* a float, kept as the number of tenths (2.5 is JFloat(25))
JFloat(tenths) == [k |-> "float", v |-> tenths]
\* a str: s is the sequence of its tokens
JStr(s) == [k |-> "str", v |-> s]
JList(s) == [k |-> "list", v |-> s]
\* a dict: f is a function from keys (token sequences) to values
JObj(f) == [k |-> "obj", v |-> f]

EmptyDict == [x \in {} |-> JNull]
\* the key of a one-word name
Key(name) == <<name>>
\* d[key] = val on the function of a dict
Put(f, key, val) == [x \in (DOMAIN f) \cup {key} |-> IF x = key THEN val ELSE f[x]]
\* the dict built from a sequence of <<name, value>> pairs (later pairs win)
RECURSIVE DictOf(_)
DictOf(pairs) ==
    IF pairs = <<>> THEN EmptyDict
    ELSE LET n == Len(pairs)
         IN Put(DictOf(SubSeq(pairs, 1, n - 1)), Key(pairs[n][1]), pairs[n][2])
Dict(pairs) == JObj(DictOf(pairs))

IsDict(x) == x.k = "obj"
\* key in d
Has(x, name) == IsDict(x) /\ Key(name) \in DOMAIN x.v
\* d.get(key, default)
Get(x, name, default) == IF Key(name) \in DOMAIN x.v THEN x.v[Key(name)] ELSE default

\* Python truthiness (bool(x))
Truthy(x) ==
    CASE x.k = "null" -> FALSE
      [] x.k = "bool" -> x.v
      [] x.k = "int" -> x.v # 0
      [] x.k = "float" -> x.v # 0
      [] x.k = "str" -> x.v # <<>>
      [] x.k = "list" -> x.v # <<>>
      [] x.k = "obj" -> DOMAIN x.v # {}

\* len(x) is defined for str, list and dict and raises TypeError otherwise
Sized(x) == x.k \in {"str", "list", "obj"}
PyLen(x) == IF x.k = "obj" THEN Cardinality(DOMAIN x.v) ELSE Len(x.v)

----------------------------------------------------------------------------
(* json.loads and json.dumps on token sequences *)

\* the number literals of the model and the values json.loads gives them
NumberTokens ==
    {"-3", "-2", "-1", "0", "1", "2", "3", "4", "5", "6", "7", "8", "9", "24", "2.5"}
NumberOf(tok) ==
    CASE tok = "-3" -> JInt(0 - 3)
      [] tok = "-2" -> JInt(0 - 2)
      [] tok = "-1" -> JInt(0 - 1)
      [] tok = "0" -> JInt(0)
      [] tok = "1" -> JInt(1)
      [] tok = "2" -> JInt(2)
      [] tok = "3" -> JInt(3)
      [] tok = "4" -> JInt(4)
      [] tok = "5" -> JInt(5)
      [] tok = "6" -> JInt(6)
      [] tok = "7" -> JInt(7)
      [] tok = "8" -> JInt(8)
      [] tok = "9" -> JInt(9)
      [] tok = "24" -> JInt(24)
      [] tok = "2.5" -> JFloat(25)
\* the literal json.dumps writes for an int
TokenOfInt(n) ==
    CASE n = 0 - 3 -> "-3"
      [] n = 0 - 2 -> "-2"
      [] n = 0 - 1 -> "-1"
      [] n = 0 -> "0"
      [] n = 1 -> "1"
      [] n = 2 -> "2"
      [] n = 3 -> "3"
      [] n = 4 -> "4"
      [] n = 5 -> "5"
      [] n = 6 -> "6"
      [] n = 7 -> "7"
      [] n = 8 -> "8"
      [] n = 9 -> "9"
      [] n = 24 -> "24"

ParseFail == [ok |-> FALSE, val |-> JNull, next |-> 0]
Parsed(val, next) == [ok |-> TRUE, val |-> val, next |-> next]

\* the text of a string literal with its escaped quotes written out, and back
Escaped(s) == [j \in 1..Len(s) |-> IF s[j] = QUOTE THEN ESCQUOTE ELSE s[j]]
Unescaped(s) == [j \in 1..Len(s) |-> IF s[j] = ESCQUOTE THEN QUOTE ELSE s[j]]

\* a string body from position i (just after the opening quote) to the next quote
ParseString(t, i) ==
    LET closing == {j \in i..Len(t) : t[j] = QUOTE}
    IN IF closing = {} THEN ParseFail
       ELSE LET j == CHOOSE m \in closing : \A n \in closing : m <= n
            IN Parsed(JStr(Unescaped(SubSeq(t, i, j - 1))), j + 1)

RECURSIVE ParseValue(_, _), ParseMembers(_, _, _), ParseElems(_, _, _)
\* one JSON value starting at position i
ParseValue(t, i) ==
    IF i > Len(t) THEN ParseFail
    ELSE CASE t[i] = "{" ->
                IF i + 1 <= Len(t) /\ t[i + 1] = "}"
                THEN Parsed(JObj(EmptyDict), i + 2)
                ELSE ParseMembers(t, i + 1, EmptyDict)
           [] t[i] = "[" ->
                IF i + 1 <= Len(t) /\ t[i + 1] = "]"
                THEN Parsed(JList(<<>>), i + 2)
                ELSE ParseElems(t, i + 1, <<>>)
           [] t[i] = QUOTE -> ParseString(t, i + 1)
           [] t[i] \in NumberTokens -> Parsed(NumberOf(t[i]), i + 1)
           [] t[i] = "null" -> Parsed(JNull, i + 1)
           [] t[i] = "true" -> Parsed(JBool(TRUE), i + 1)
           [] t[i] = "false" -> Parsed(JBool(FALSE), i + 1)
           [] OTHER -> ParseFail
\* the members of an object from position i: "key" : value , ... }
ParseMembers(t, i, f) ==
    IF i > Len(t) \/ t[i] # QUOTE THEN ParseFail
    ELSE LET key == ParseString(t, i + 1)
         IN IF ~key.ok \/ key.next > Len(t) \/ t[key.next] # ":" THEN ParseFail
            ELSE LET val == ParseValue(t, key.next + 1)
                 IN IF ~val.ok \/ val.next > Len(t) THEN ParseFail
                    ELSE LET g == Put(f, key.val.v, val.val)
                         IN CASE t[val.next] = "," -> ParseMembers(t, val.next + 1, g)
                              [] t[val.next] = "}" -> Parsed(JObj(g), val.next + 1)
                              [] OTHER -> ParseFail
\* the elements of an array from position i: value , ... ]
ParseElems(t, i, acc) ==
    LET val == ParseValue(t, i)
    IN IF ~val.ok \/ val.next > Len(t) THEN ParseFail
       ELSE CASE t[val.next] = "," -> ParseElems(t, val.next + 1, Append(acc, val.val))
              [] t[val.next] = "]" -> Parsed(JList(Append(acc, val.val)), val.next + 1)
              [] OTHER -> ParseFail

\* json.loads: the whole text must be one value; ok = FALSE stands for the
\* JSONDecodeError it raises
Loads(t) ==
    LET r == ParseValue(t, 1)
    IN IF r.ok /\ r.next = Len(t) + 1 THEN [ok |-> TRUE, val |-> r.val]
       ELSE [ok |-> FALSE, val |-> JNull]

RECURSIVE Dumps(_), DumpsMembers(_, _), DumpsElems(_)
\* json.dumps
Dumps(x) ==
    CASE x.k = "null" -> <<"null">>
      [] x.k = "bool" -> IF x.v THEN <<"true">> ELSE <<"false">>
      [] x.k = "int" -> <<TokenOfInt(x.v)>>
      [] x.k = "float" -> <<"2.5">>
      [] x.k = "str" -> <<QUOTE>> \o Escaped(x.v) \o <<QUOTE>>
      [] x.k = "list" -> <<"[">> \o DumpsElems(x.v) \o <<"]">>
      [] x.k = "obj" -> <<"{">> \o DumpsMembers(x.v, DOMAIN x.v) \o <<"}">>
DumpsMembers(f, keys) ==
    IF keys = {} THEN <<>>
    ELSE LET key == CHOOSE c \in keys : TRUE
             rest == keys \ {key}
         IN <<QUOTE>> \o Escaped(key) \o <<QUOTE, ":">> \o Dumps(f[key])
            \o (IF rest = {} THEN <<>> ELSE <<",">> \o DumpsMembers(f, rest))
DumpsElems(s) ==
    IF s = <<>> THEN <<>>
    ELSE Dumps(s[1]) \o (IF Len(s) = 1 THEN <<>> ELSE <<",">> \o DumpsElems(Tail(s)))

----------------------------------------------------------------------------
(* parse_json_response *)

\* the positions where sep occurs in t; sep is the fence, or the fence
\* directly followed by the word json
Occurrences(t, tagged) ==
    {j \in 1..Len(t) :
        /\ t[j] = FENCE
        /\ tagged => (j + 1 <= Len(t) /\ t[j + 1] = JSONTAG)}
SepWidth(tagged) == IF tagged THEN 2 ELSE 1
MinOf(S) == CHOOSE m \in S : \A n \in S : m <= n
MaxOf(S) == CHOOSE m \in S : \A n \in S : m >= n
\* text.split(sep)[0]
SplitFirst(t, tagged) ==
    LET occ == Occurrences(t, tagged)
    IN IF occ = {} THEN t ELSE SubSeq(t, 1, MinOf(occ) - 1)
\* text.split(sep)[1], used only when sep occurs in t
SplitSecond(t, tagged) ==
    LET occ == Occurrences(t, tagged)
        from == MinOf(occ) + SepWidth(tagged)
        later == {j \in occ : j >= from}
    IN IF later = {} THEN SubSeq(t, from, Len(t))
       ELSE SubSeq(t, from, MinOf(later) - 1)

\* the text between the first pair of fences, when there is a fence
StripFences(t) ==
    IF Occurrences(t, TRUE) # {} THEN SplitFirst(SplitSecond(t, TRUE), FALSE)
    ELSE IF Occurrences(t, FALSE) # {} THEN SplitFirst(SplitSecond(t, FALSE), FALSE)
    ELSE t

\* re.search of a brace up to the last closing brace: the match, or <<>> for none
BraceMatch(t) ==
    LET opens == {j \in 1..Len(t) : t[j] = "{"}
        closes == {j \in 1..Len(t) : t[j] = "}"}
    IN IF opens # {} /\ closes # {} /\ MinOf(opens) < MaxOf(closes)
       THEN SubSeq(t, MinOf(opens), MaxOf(closes))
       ELSE <<>>

parse_json_response(response_text) ==
    LET text == StripFences(response_text)
        json_match == BraceMatch(text)
        r == IF json_match # <<>> THEN Loads(json_match) ELSE Loads(text)
    IN IF r.ok THEN r.val ELSE JObj(EmptyDict)

----------------------------------------------------------------------------
(* Bounds and program constants *)

\* the number of open events in a fetched batch (their ids are 1..MaxEvents)
MaxEvents == 2
\* the longest campaign list in a response of the monitoring agent
MaxCampaigns == 2
\* how far below 0 and above MaxSeverity the severities of the responses go
SevSlack == 2
\* the top of the severity scale
MaxSeverity == 5
\* campaign.get('severity_rating', 4)
DefaultCampaignSeverity == 4
\* payload.get('hours', 24)
DefaultHours == 24

----------------------------------------------------------------------------
(* Triage *)

\* a number in tenths, as Python compares int, float and bool with each other
Tenths(x) ==
    CASE x.k = "int" -> 10 * x.v
      [] x.k = "float" -> x.v
      [] x.k = "bool" -> IF x.v THEN 10 ELSE 0
\* severity_rating <= 2 raises TypeError for anything but a number
Comparable(x) == x.k \in {"int", "float", "bool"}

\* the first comparison written < 2 instead of <= 2
triage_decision_lt(severity_rating) ==
    IF Tenths(severity_rating) < 20
    THEN [action_taken |-> "auto_close", status_update |-> "closed",
          escalate |-> FALSE, notification_required |-> FALSE]
    ELSE IF Tenths(severity_rating) = 30
    THEN [action_taken |-> "monitor", status_update |-> "open",
          escalate |-> FALSE, notification_required |-> FALSE]
    ELSE [action_taken |-> "escalate", status_update |-> "investigating",
          escalate |-> TRUE, notification_required |-> TRUE,
          notification_type |-> "critical"]

triage_decision(severity_rating) ==
    IF Tenths(severity_rating) <= 20
    THEN [action_taken |-> "auto_close", status_update |-> "closed",
          escalate |-> FALSE, notification_required |-> FALSE]
    ELSE IF Tenths(severity_rating) = 30
    THEN [action_taken |-> "monitor", status_update |-> "open",
          escalate |-> FALSE, notification_required |-> FALSE]
    ELSE [action_taken |-> "escalate", status_update |-> "investigating",
          escalate |-> TRUE, notification_required |-> TRUE,
          notification_type |-> "critical"]

----------------------------------------------------------------------------
(* State *)

VARIABLES
    pc,               \* where the request in progress stands
    payload,          \* the payload in use (after unwrapping the prompt field)
    response_text,    \* the text the agent returned
    analysis,         \* handle_analyze_workflow: the parsed analysis
    triage,           \* handle_analyze_workflow: the triage decision
    events,           \* handle_monitor_workflow: the fetched open events
    campaigns,        \* handle_monitor_workflow: monitoring_data['campaigns']
    idx,              \* handle_monitor_workflow: the next campaign of the loop
    backend_actions,  \* handle_monitor_workflow: the counters of the summary
    calls,            \* the backend tool calls of this request, in order
    model_calls,      \* the agent invocations of this request
    result            \* the summary returned

vars == <<pc, payload, response_text, analysis, triage, events, campaigns, idx,
          backend_actions, calls, model_calls, result>>

NoTriage == [action_taken |-> "none"]
NoResult == [status |-> "none"]
NoCounters == [total_events_updated |-> 0, escalations_created |-> 0,
               escalation_ids |-> <<>>]

\* a message: a fixed text and the value formatted into it
Message(text, arg) == [text |-> text, arg |-> arg]

\* one call of a backend tool: what it was given, whether it sent its HTTP
\* request, and whether the tool reported success
Call(tool, target, severity, status, sent, ok, campaign) ==
    [tool |-> tool, target |-> target, severity |-> severity, status |-> status,
     sent |-> sent, ok |-> ok, campaign |-> campaign]

Init ==
    /\ pc = "idle"
    /\ payload = JNull
    /\ response_text = <<>>
    /\ analysis = JNull
    /\ triage = NoTriage
    /\ events = JNull
    /\ campaigns = JNull
    /\ idx = 0
    /\ backend_actions = NoCounters
    /\ calls = <<>>
    /\ model_calls = 0
    /\ result = NoResult

\* the request ends with summary r
Return(r) ==
    /\ pc' = "done"
    /\ result' = r

----------------------------------------------------------------------------
(* Backend tools.  http is what the backend answers: [ok, id]. *)

HttpOutcomes ==
    {[ok |-> FALSE, id |-> JNull],     \* timeout, connection error or non-2xx
     [ok |-> TRUE, id |-> JInt(7)],    \* 2xx, and the body names the new record
     [ok |-> TRUE, id |-> JNull]}      \* 2xx, and the body names no id

\* the tool returns a text; ok says whether it starts with Successfully
ToolResult(ok, id) == [ok |-> ok, id |-> id]

\* any text the tool returns counts as a success
Succeeded_nonempty(tool_result) == TRUE

\* the test the workflows make on the text a tool returned: 'Successfully' in it
Succeeded(tool_result) == tool_result.ok

update_event_analysis(event_id, severity, status, http) ==
    [call |-> Call("update_event_analysis", event_id, severity, status, TRUE, http.ok, 0),
     result |-> ToolResult(http.ok, JNull)]

bulk_update_events(event_ids, severity, status, http, campaign) ==
    [call |-> Call("bulk_update_events", event_ids, severity, status, TRUE, http.ok, campaign),
     result |-> ToolResult(http.ok, JNull)]

create_escalation(event_id, severity, http) ==
    [call |-> Call("create_escalation", event_id, severity, "", TRUE, http.ok, 0),
     result |-> ToolResult(http.ok, http.id)]

\* affected_event_ids[0] raises KeyError on a non-empty dict, before the request
create_campaign_escalation(severity, affected_event_ids, http, campaign) ==
    LET sent == ~(affected_event_ids.k = "obj" /\ Truthy(affected_event_ids))
    IN [call |-> Call("create_campaign_escalation", affected_event_ids, severity, "",
                      sent, sent /\ http.ok, campaign),
        result |-> ToolResult(sent /\ http.ok, http.id)]

\* what the backend answers to GET /events: a failure, or a body
FetchFailed == [ok |-> FALSE, body |-> JNull]
\* get_open_events: the JSON text of the events, or of an error object
get_open_events(hours, http) ==
    IF http.ok /\ IsDict(http.body)
    THEN Dumps(Get(http.body, "events", JList(<<>>)))
    ELSE Dumps(Dict(<< <<"error", JStr(<<"Failed to fetch open events">>)>> >>))

----------------------------------------------------------------------------
(* Inputs *)

EventOf(i) == Dict(<< <<"id", JInt(i)>>, <<"action", JStr(<<"BLOCK">>)>> >>)
Analyze == JStr(<<"analyze">>)
Monitor == JStr(<<"monitor">>)

DirectPayloads ==
    {Dict(<<>>),
     Dict(<< <<"action", Analyze>>, <<"event", EventOf(1)>> >>),
     Dict(<< <<"event", EventOf(1)>> >>),
     Dict(<< <<"action", Analyze>>, <<"event", JObj(EmptyDict)>> >>),
     Dict(<< <<"action", Analyze>>, <<"event", Dict(<< <<"uri", JStr(<<"/x">>)>> >>)>> >>),
     Dict(<< <<"action", Analyze>>, <<"event", JStr(<<"e">>)>> >>),
     Dict(<< <<"action", Monitor>> >>),
     Dict(<< <<"action", Monitor>>, <<"hours", JInt(6)>> >>),
     Dict(<< <<"action", JStr(<<"delete">>)>>, <<"event", EventOf(1)>> >>),
     Dict(<< <<"action", JStr(<<"delete">>)>>, <<"hours", JInt(6)>> >>),
     Dict(<< <<"action", JInt(7)>> >>),
     Dict(<< <<"action", JNull>>, <<"event", EventOf(1)>> >>)}
\* the Lambda wrapper: the request as JSON text in the prompt field
WrappedPayloads ==
    {Dict(<< <<"prompt", JStr(Dumps(p))>> >>) : p \in DirectPayloads}
    \cup {Dict(<< <<"prompt", JStr(<<"hello">>)>>, <<"action", Monitor>> >>),
          Dict(<< <<"prompt", JStr(<<"hello">>)>>, <<"action", JStr(<<"delete">>)>> >>),
          Dict(<< <<"prompt", JStr(<<"[", "]">>)>>, <<"action", Monitor>> >>),
          Dict(<< <<"prompt", JInt(7)>>, <<"action", JStr(<<"delete">>)>> >>)}
Payloads == DirectPayloads \cup WrappedPayloads

\* the ways a response wraps its JSON text
Wrappings(t) ==
    {t,
     <<"Here", "is", "the", "result">> \o t \o <<"Done">>,
     <<FENCE, JSONTAG>> \o t \o <<FENCE>>,
     <<"Result", FENCE, JSONTAG>> \o t \o <<FENCE, "Done">>,
     <<FENCE>> \o t \o <<FENCE>>}
\* texts that hold no JSON object
Unparseable ==
    {<<>>,
     <<"not", "json", "at", "all">>,
     <<"{", QUOTE, "severity_rating", QUOTE, ":", "4">>,
     <<"{", "}", "{", "}">>,
     <<"[", "]">>,
     <<"null">>,
     <<QUOTE, "campaigns", "severity_rating", QUOTE>>}

\* an agent call raises, or returns a text
Raised == [raised |-> TRUE, text |-> <<>>]
Returned(t) == [raised |-> FALSE, text |-> t]

SeverityValues ==
    {JInt(n) : n \in (0 - SevSlack)..(MaxSeverity + SevSlack)}
    \cup {JFloat(25), JStr(<<"high">>), JNull, JBool(TRUE)}
AnalysisObject(sev) ==
    Dict(<< <<"severity_rating", sev>>,
            <<"security_analysis", JStr(<<"x">>)>>,
            <<"recommended_actions", JStr(<<"y">>)>>,
            <<"attack_type", JStr(<<"SQLi">>)>> >>)
\* the analysis objects the security agent may answer with
AnalysisObjects ==
    {AnalysisObject(sev) : sev \in SeverityValues}
    \cup {Dict(<< <<"security_analysis", JStr(<<"x">>)>>,
                  <<"recommended_actions", JStr(<<"y">>)>> >>),
          Dict(<< <<"severity_rating", JInt(4)>>,
                  <<"recommended_actions", JStr(<<"y">>)>> >>),
          Dict(<< <<"severity_rating", JInt(2)>>,
                  <<"security_analysis", JStr(<<"x">>)>> >>),
          Dict(<< <<"severity_rating", JInt(5)>> >>)}
SecurityResponses ==
    {Raised}
    \cup {Returned(t) : t \in UNION {Wrappings(Dumps(a)) : a \in AnalysisObjects}}
    \cup {Returned(t) : t \in Unparseable}

Ids(s) == JList([i \in 1..Len(s) |-> JInt(s[i])])
Campaign(name, ids, sev) ==
    Dict(<< <<"campaign_id", JStr(<<name>>)>>,
            <<"attack_type", JStr(<<"SQLi">>)>>,
            <<"affected_event_ids", ids>>,
            <<"severity_rating", sev>>,
            <<"security_analysis", JStr(<<"x">>)>> >>)
\* the candidate campaigns the monitoring agent may name; event 9 is in no batch
CampaignSamples ==
    {Campaign("high", Ids(<<1, 2>>), JInt(5)),
     Campaign("low", Ids(<<1>>), JInt(2)),
     Campaign("mid", Ids(<<2>>), JInt(3)),
     Campaign("noevents", Ids(<<>>), JInt(4)),
     Dict(<< <<"campaign_id", JStr(<<"bare">>)>> >>),
     Campaign("unknown", Ids(<<1, 9>>), JInt(5)),
     Campaign("sev7", Ids(<<1>>), JInt(7)),
     Campaign("sevtext", Ids(<<2>>), JStr(<<"high">>)),
     Campaign("nullids", JNull, JInt(5)),
     JStr(<<"sqli_campaign">>)}
CampaignLists == UNION {[1..n -> CampaignSamples] : n \in 0..MaxCampaigns}
MonitoringObjects ==
    {Dict(<< <<"campaigns", JList(l)>> >>) : l \in CampaignLists}
    \cup {Dict(<< <<"summary", JStr(<<"x">>)>> >>),
          Dict(<< <<"campaigns", JNull>> >>),
          Dict(<< <<"campaigns", JStr(<<>>)>> >>),
          Dict(<< <<"campaigns", Dict(<< <<"c1", JInt(1)>> >>)>> >>)}
MonitoringResponses ==
    {Raised}
    \cup {Returned(Dumps(m)) : m \in MonitoringObjects}
    \cup {Returned(t) : t \in Wrappings(
              Dumps(Dict(<< <<"campaigns",
                              JList(<<Campaign("high", Ids(<<1, 2>>), JInt(5))>>)>> >>)))}
    \cup {Returned(t) : t \in Unparseable}

\* what the backend answers to the fetch of open events
FetchOutcomes ==
    {FetchFailed}
    \cup {[ok |-> TRUE,
           body |-> Dict(<< <<"events", JList([i \in 1..n |-> EventOf(i)])>> >>)] :
             n \in {0, MaxEvents}}
    \cup {[ok |-> TRUE, body |-> Dict(<<>>)]}

----------------------------------------------------------------------------
(* Python operations on a parsed value *)

\* name in x, for the containers; anything else raises TypeError
Iterable(x) == x.k \in {"obj", "list", "str"}
Contains(x, name) ==
    CASE x.k = "obj" -> Key(name) \in DOMAIN x.v
      [] x.k = "list" -> \E i \in 1..Len(x.v) : x.v[i] = JStr(<<name>>)
      [] x.k = "str" -> \E i \in 1..Len(x.v) : x.v[i] = name
RECURSIVE KeySeq(_)
KeySeq(keys) ==
    IF keys = {} THEN <<>>
    ELSE LET key == CHOOSE c \in keys : TRUE IN <<JStr(key)>> \o KeySeq(keys \ {key})
\* what a for loop over x visits
Items(x) ==
    CASE x.k = "list" -> x.v
      [] x.k = "str" -> [i \in 1..Len(x.v) |-> JStr(<<x.v[i]>>)]
      [] x.k = "obj" -> KeySeq(DOMAIN x.v)

\* the exception raised between the parse and the use of data[name], or "" for
\* none: data must be a non-empty dict that has the key
LookupFailure(data, name) ==
    IF ~Truthy(data) THEN "ValueError"
    ELSE IF ~Iterable(data) THEN "TypeError"
    ELSE IF ~Contains(data, name) THEN "ValueError"
    ELSE IF ~IsDict(data) THEN "TypeError"
    ELSE ""

ErrorSummary(message) == [status |-> "error", message |-> message]
WorkflowError(workflow, message) ==
    [status |-> "error", workflow |-> workflow, message |-> message]

----------------------------------------------------------------------------
(* invoke *)

\* the payload after the prompt field is unwrapped
Unwrap(p) ==
    IF Has(p, "prompt") /\ p.v[Key("prompt")].k = "str"
    THEN LET r == Loads(p.v[Key("prompt")].v) IN IF r.ok THEN r.val ELSE p
    ELSE p

\* any other action handled as the default one
Dispatch_default(action) ==
    IF action = Monitor THEN "monitor" ELSE "analyze"

\* the branch invoke takes on the action
Dispatch(action) ==
    IF action = Analyze THEN "analyze"
    ELSE IF action = Monitor THEN "monitor"
    ELSE "unsupported"

Invoke(p) ==
    /\ pc = "idle"
    /\ payload' = Unwrap(p)
    /\ UNCHANGED <<response_text, analysis, triage, events, campaigns, idx,
                   backend_actions, calls, model_calls>>
    /\ IF ~IsDict(payload')
       THEN \* payload.get raises AttributeError
            Return(ErrorSummary(Message("AttributeError", JNull)))
       ELSE LET action == Get(payload', "action", Analyze)
            IN IF Dispatch(action) = "unsupported"
               THEN Return(ErrorSummary(Message("Unsupported action: ", action)))
               ELSE pc' = Dispatch(action) /\ result' = NoResult

----------------------------------------------------------------------------
(* handle_analyze_workflow *)

Event == Get(payload, "event", JObj(EmptyDict))

AnalyzeStart ==
    /\ pc = "analyze"
    /\ IF ~Truthy(Event)
       THEN Return(ErrorSummary(Message("No event data provided", JNull)))
       ELSE IF ~IsDict(Event)
       THEN \* event.get raises outside the try of the handler; invoke catches it
            Return(ErrorSummary(Message("AttributeError", JNull)))
       ELSE pc' = "analyze_model" /\ result' = result
    /\ UNCHANGED <<payload, response_text, analysis, triage, events, campaigns, idx,
                   backend_actions, calls, model_calls>>

\* the exception the handler raises on the parsed analysis, or "" for none
AnalysisFailure(a) ==
    IF LookupFailure(a, "severity_rating") # "" THEN LookupFailure(a, "severity_rating")
    ELSE IF ~Comparable(a.v[Key("severity_rating")]) THEN "TypeError"
    ELSE ""

AnalyzeInvokeModel(resp) ==
    /\ pc = "analyze_model"
    /\ model_calls' = model_calls + 1
    /\ UNCHANGED <<payload, events, campaigns, idx, backend_actions, calls>>
    /\ IF resp.raised
       THEN /\ Return(WorkflowError("analyze", Message("AgentError", JNull)))
            /\ UNCHANGED <<response_text, analysis, triage>>
       ELSE LET a == parse_json_response(resp.text)
            IN /\ response_text' = resp.text
               /\ analysis' = a
               /\ IF AnalysisFailure(a) # ""
                  THEN /\ Return(WorkflowError("analyze", Message(AnalysisFailure(a), JNull)))
                       /\ triage' = triage
                  ELSE /\ triage' = triage_decision(a.v[Key("severity_rating")])
                       /\ pc' = "analyze_backend"
                       /\ result' = result

\* the escalation is created before the event is updated
AnalyzeCalls_escalation_first(update_call, escalation_call, escalate) ==
    IF escalate THEN <<escalation_call, update_call>> ELSE <<update_call>>

\* the tool calls of the backend step: the update, then the escalation if any
AnalyzeCalls(update_call, escalation_call, escalate) ==
    IF escalate THEN <<update_call, escalation_call>> ELSE <<update_call>>

AnalyzeBackend(u, e) ==
    /\ pc = "analyze_backend"
    /\ LET event_id == Get(Event, "id", JNull)
           severity == analysis.v[Key("severity_rating")]
           upd == update_event_analysis(event_id, severity, triage.status_update, u)
           esc == create_escalation(event_id, severity, e)
           done == IF triage.escalate
                   THEN [analysis_updated |-> Succeeded(upd.result),
                         escalation_created |-> Succeeded(esc.result)]
                   ELSE [analysis_updated |-> Succeeded(upd.result)]
       IN /\ calls' = AnalyzeCalls(upd.call, esc.call, triage.escalate)
          /\ Return([status |-> "success", workflow |-> "analyze", event_id |-> event_id,
                     analysis |-> analysis, triage |-> triage,
                     backend_actions_completed |-> done])
    /\ UNCHANGED <<payload, response_text, analysis, triage, events, campaigns, idx,
                   backend_actions, model_calls>>

----------------------------------------------------------------------------
(* handle_monitor_workflow *)

\* the test written as events is None
NoOpenEvents_none(fetched) == fetched.k = "null"

\* if not events
NoOpenEvents(fetched) == ~Truthy(fetched)

MonitorFetch(h) ==
    /\ pc = "monitor"
    /\ LET hours == Get(payload, "hours", JInt(DefaultHours))
           loaded == Loads(get_open_events(hours, h))
           events_data == loaded.val
           fetched == IF events_data.k = "list" THEN events_data
                      ELSE Get(events_data, "events", JList(<<>>))
       IN /\ calls' = <<Call("get_open_events", hours, JNull, "open", TRUE, h.ok, 0)>>
          /\ IF ~loaded.ok \/ ~Iterable(events_data)
             THEN Return(WorkflowError("monitor", Message("TypeError", JNull)))
                  /\ events' = events
             ELSE IF Contains(events_data, "error")
             THEN /\ IF IsDict(events_data)
                     THEN Return(ErrorSummary(events_data.v[Key("error")]))
                     ELSE Return(WorkflowError("monitor", Message("TypeError", JNull)))
                  /\ events' = events
             ELSE IF ~IsDict(events_data) /\ events_data.k # "list"
             THEN Return(WorkflowError("monitor", Message("AttributeError", JNull)))
                  /\ events' = events
             ELSE IF NoOpenEvents(fetched)
             THEN /\ Return([status |-> "success", workflow |-> "monitor",
                             message |-> Message("No open events to analyze", JNull),
                             campaigns_detected |-> JInt(0)])
                  /\ events' = fetched
             ELSE /\ events' = fetched
                  /\ pc' = "monitor_model"
                  /\ result' = result
    /\ UNCHANGED <<payload, response_text, analysis, triage, campaigns, idx,
                   backend_actions, model_calls>>

\* the exception raised on the parsed response before the loop, or "" for none
MonitoringFailure(d) ==
    IF LookupFailure(d, "campaigns") # "" THEN LookupFailure(d, "campaigns")
    ELSE IF ~Sized(d.v[Key("campaigns")]) THEN "TypeError"
    ELSE ""

MonitorInvokeModel(resp) ==
    /\ pc = "monitor_model"
    /\ model_calls' = model_calls + 1
    /\ UNCHANGED <<payload, analysis, triage, events, calls>>
    /\ IF resp.raised
       THEN /\ Return(WorkflowError("monitor", Message("AgentError", JNull)))
            /\ UNCHANGED <<response_text, campaigns, idx, backend_actions>>
       ELSE LET d == parse_json_response(resp.text)
            IN /\ response_text' = resp.text
               /\ IF MonitoringFailure(d) # ""
                  THEN /\ Return(WorkflowError("monitor", Message(MonitoringFailure(d), JNull)))
                       /\ UNCHANGED <<campaigns, idx, backend_actions>>
                  ELSE /\ campaigns' = d.v[Key("campaigns")]
                       /\ idx' = 1
                       /\ backend_actions' = NoCounters
                       /\ pc' = "monitor_loop"
                       /\ result' = result

\* one escalation call for each event of the campaign
PassCalls_per_event(bulk_call, escalation_call, affected_event_ids) ==
    <<bulk_call>> \o [i \in 1..PyLen(affected_event_ids) |-> escalation_call]

\* the tool calls of one pass of the loop: the bulk update, then the escalation
PassCalls(bulk_call, escalation_call, affected_event_ids) ==
    <<bulk_call, escalation_call>>

\* every campaign counts as updated and escalated, whatever the tools returned
Counted_attempts(counters, bulk_result, escalation_result, affected_event_ids) ==
    [total_events_updated |-> counters.total_events_updated + PyLen(affected_event_ids),
     escalations_created |-> counters.escalations_created + 1,
     escalation_ids |->
         IF Succeeded(escalation_result) /\ escalation_result.id.k = "int"
         THEN Append(counters.escalation_ids, escalation_result.id.v)
         ELSE counters.escalation_ids]

\* the counters after one pass: events of a bulk update that succeeded, one for
\* an escalation that succeeded, and its id when the text names an integer
Counted(counters, bulk_result, escalation_result, affected_event_ids) ==
    [total_events_updated |->
         counters.total_events_updated
         + (IF Succeeded(bulk_result) THEN PyLen(affected_event_ids) ELSE 0),
     escalations_created |->
         counters.escalations_created + (IF Succeeded(escalation_result) THEN 1 ELSE 0),
     escalation_ids |->
         IF Succeeded(escalation_result) /\ escalation_result.id.k = "int"
         THEN Append(counters.escalation_ids, escalation_result.id.v)
         ELSE counters.escalation_ids]

\* one pass of the loop over the campaigns
MonitorCampaign(b, e) ==
    /\ pc = "monitor_loop"
    /\ idx <= Len(Items(campaigns))
    /\ LET campaign == Items(campaigns)[idx]
       IN IF ~IsDict(campaign)
          THEN \* campaign.get raises AttributeError
               /\ Return(WorkflowError("monitor", Message("AttributeError", JNull)))
               /\ UNCHANGED <<idx, backend_actions, calls>>
          ELSE LET affected_event_ids == Get(campaign, "affected_event_ids", JList(<<>>))
                   severity == Get(campaign, "severity_rating", JInt(DefaultCampaignSeverity))
               IN IF ~Sized(affected_event_ids)
                  THEN \* len(affected_event_ids) raises TypeError
                       /\ Return(WorkflowError("monitor", Message("TypeError", JNull)))
                       /\ UNCHANGED <<idx, backend_actions, calls>>
                  ELSE LET bulk == bulk_update_events(affected_event_ids, severity,
                                                      "investigating", b, idx)
                           esc == create_campaign_escalation(severity, affected_event_ids,
                                                             e, idx)
                       IN /\ calls' = calls \o PassCalls(bulk.call, esc.call,
                                                          affected_event_ids)
                          /\ backend_actions' =
                               Counted(backend_actions, bulk.result, esc.result,
                                       affected_event_ids)
                          /\ idx' = idx + 1
                          /\ UNCHANGED <<pc, result>>
    /\ UNCHANGED <<payload, response_text, analysis, triage, events, campaigns, model_calls>>

MonitorReturn ==
    /\ pc = "monitor_loop"
    /\ idx > Len(Items(campaigns))
    /\ Return([status |-> "success", workflow |-> "monitor",
               campaigns_detected |-> campaigns,
               backend_actions_completed |-> backend_actions])
    /\ UNCHANGED <<payload, response_text, analysis, triage, events, campaigns, idx,
                   backend_actions, calls, model_calls>>

----------------------------------------------------------------------------

\* the summary goes back to the caller; nothing of the request is kept
Respond ==
    /\ pc = "done"
    /\ pc' = "idle"
    /\ payload' = JNull
    /\ response_text' = <<>>
    /\ analysis' = JNull
    /\ triage' = NoTriage
    /\ events' = JNull
    /\ campaigns' = JNull
    /\ idx' = 0
    /\ backend_actions' = NoCounters
    /\ calls' = <<>>
    /\ model_calls' = 0
    /\ result' = NoResult

Next ==
    \/ \E p \in Payloads : Invoke(p)
    \/ AnalyzeStart
    \/ \E resp \in SecurityResponses : AnalyzeInvokeModel(resp)
    \/ \E u \in {h \in HttpOutcomes : h.id = JNull}, e \in HttpOutcomes : AnalyzeBackend(u, e)
    \/ \E h \in FetchOutcomes : MonitorFetch(h)
    \/ \E resp \in MonitoringResponses : MonitorInvokeModel(resp)
    \/ \E b \in {h \in HttpOutcomes : h.id = JNull}, e \in HttpOutcomes : MonitorCampaign(b, e)
    \/ MonitorReturn
    \/ Respond

Spec == Init /\ [][Next]_vars

----------------------------------------------------------------------------
(* bulk-analysis-agent: extract_json_from_response and invoke *)

\* the longest free text of an analysis, in tokens
MaxTextLen == 2

\* the single quote Python writes around a str in a repr
APOS == "'"

RECURSIVE PyRepr(_), ReprMembers(_, _), ReprElems(_)
\* repr(x), what str() gives inside a list or a dict
PyRepr(x) ==
    CASE x.k = "null" -> <<"None">>
      [] x.k = "bool" -> IF x.v THEN <<"True">> ELSE <<"False">>
      [] x.k = "int" -> <<TokenOfInt(x.v)>>
      [] x.k = "float" -> <<"2.5">>
      [] x.k = "str" ->
           IF (\E j \in 1..Len(x.v) : x.v[j] = APOS)
              /\ ~(\E j \in 1..Len(x.v) : x.v[j] = QUOTE)
           THEN <<QUOTE>> \o x.v \o <<QUOTE>>
           ELSE <<APOS>> \o x.v \o <<APOS>>
      [] x.k = "list" -> <<"[">> \o ReprElems(x.v) \o <<"]">>
      [] x.k = "obj" -> <<"{">> \o ReprMembers(x.v, DOMAIN x.v) \o <<"}">>
ReprMembers(f, keys) ==
    IF keys = {} THEN <<>>
    ELSE LET key == CHOOSE c \in keys : TRUE
             rest == keys \ {key}
         IN PyRepr(JStr(key)) \o <<":">> \o PyRepr(f[key])
            \o (IF rest = {} THEN <<>> ELSE <<",">> \o ReprMembers(f, rest))
ReprElems(s) ==
    IF s = <<>> THEN <<>>
    ELSE PyRepr(s[1]) \o (IF Len(s) = 1 THEN <<>> ELSE <<",">> \o ReprElems(Tail(s)))
\* str(x)
PyStr(x) == IF x.k = "str" THEN x.v ELSE PyRepr(x)

\* the outcome of an expression: the exception it raises, or its value
Raises(kind) == [raised |-> kind, val |-> JNull]
Gives(val) == [raised |-> "", val |-> val]

\* result_message['content'][0]['text']
MessageText(result_message) ==
    LET content == result_message.v[Key("content")]
    IN CASE content.k = "list" ->
              IF content.v = <<>> THEN Raises("IndexError")
              ELSE LET block == content.v[1]
                   IN IF ~IsDict(block) THEN Raises("TypeError")
                      ELSE IF ~Has(block, "text") THEN Raises("KeyError")
                      ELSE Gives(block.v[Key("text")])
         [] content.k = "str" ->
              IF content.v = <<>> THEN Raises("IndexError") ELSE Raises("TypeError")
         [] content.k = "obj" -> Raises("KeyError")
         [] OTHER -> Raises("TypeError")

\* the text between the first pair of fences, when there is a fence
CodeBlock(text) ==
    IF Occurrences(text, TRUE) # {}
    THEN SplitFirst(SplitSecond(text, TRUE), FALSE)
    ELSE IF Occurrences(text, FALSE) # {}
    THEN SplitFirst(SplitSecond(text, FALSE), FALSE)
    ELSE text

required_fields == <<"severity_rating", "security_analysis", "recommended_actions">>

\* the record of the except branch; the message of the exception is kept as
\* the name of its class
ParsingFailed(kind, result_message) ==
    Dict(<< <<"error", JStr(<<"JSON parsing failed: ", kind>>)>>,
            <<"raw_response", JStr(PyStr(result_message))>> >>)
\* the texts of the model are shorter than the 200 characters of text[:200]
MissingField(field, text) ==
    Dict(<< <<"error", JStr(<<"Missing required field: ", field>>)>>,
            <<"raw_response", JStr(text)>> >>)
InvalidSeverity(severity, text) ==
    Dict(<< <<"error", JStr(<<"Invalid severity rating: ">> \o PyStr(severity))>>,
            <<"raw_response", JStr(text)>> >>)

\* not isinstance(severity, int) or severity < 0 or severity > 5; a bool is an
\* instance of int, and True and False compare as 1 and 0
SeverityRejected(severity) ==
    CASE severity.k = "int" -> severity.v < 0 \/ severity.v > 5
      [] severity.k = "bool" -> FALSE
      [] OTHER -> TRUE

extract_json_from_response(result_message) ==
    LET got == IF IsDict(result_message) /\ Has(result_message, "content")
               THEN MessageText(result_message)
               ELSE Gives(JStr(PyStr(result_message)))
    IN IF got.raised # "" THEN ParsingFailed(got.raised, result_message)
       ELSE IF got.val.k # "str"
       THEN \* the in test, text.split or json.loads raises on what is not a str
            ParsingFailed("TypeError", result_message)
       ELSE LET text == CodeBlock(got.val.v)
                loaded == Loads(text)
                analysis_ == loaded.val
                missing == {i \in DOMAIN required_fields :
                               ~Contains(analysis_, required_fields[i])}
            IN IF ~loaded.ok THEN ParsingFailed("JSONDecodeError", result_message)
               ELSE IF ~Iterable(analysis_)
               THEN \* field not in analysis raises
                    ParsingFailed("TypeError", result_message)
               ELSE IF missing # {}
               THEN MissingField(required_fields[MinOf(missing)], text)
               ELSE IF ~IsDict(analysis_)
               THEN \* analysis['severity_rating'] raises on a list or a str
                    ParsingFailed("TypeError", result_message)
               ELSE LET severity == analysis_.v[Key("severity_rating")]
                    IN IF SeverityRejected(severity)
                       THEN InvalidSeverity(severity, text)
                       ELSE analysis_

\* the whole of what ', '.join(x) needs: an iterable of str
Joinable(x) ==
    \/ x.k \in {"str", "obj"}
    \/ x.k = "list" /\ \A j \in 1..Len(x.v) : x.v[j].k = "str"
\* the exception building the prompt raises, or "" for none
PromptFailure(p) ==
    IF ~IsDict(p) THEN "AttributeError"
    ELSE LET summary == Get(p, "summary", JObj(EmptyDict))
             events_ == Get(p, "events", JList(<<>>))
         IN IF ~IsDict(summary) THEN "AttributeError"
            ELSE LET uris == Get(summary, "unique_uris", JList(<<>>))
                     rules == Get(summary, "unique_rules", JList(<<>>))
                     time_range == Get(summary, "time_range", JObj(EmptyDict))
                 IN IF ~Sized(uris) THEN "TypeError"
                    ELSE IF ~IsDict(time_range) THEN "AttributeError"
                    ELSE IF ~Joinable(uris) THEN "TypeError"
                    ELSE IF ~Sized(rules) \/ rules.k = "obj" THEN "TypeError"
                    ELSE IF ~Joinable(rules) THEN "TypeError"
                    ELSE IF ~Sized(events_) \/ events_.k = "obj" THEN "TypeError"
                    ELSE IF \E j \in 1..Len(Items(events_)) : ~IsDict(Items(events_)[j])
                    THEN "AttributeError"
                    ELSE ""

\* the entry point raised: the exception leaves invoke
Uncaught(kind) == [status |-> "raised", exception |-> kind]

\* invoke, up to the call of the agent
BulkInvoke(p) ==
    /\ pc = "idle"
    /\ payload' = p
    /\ IF PromptFailure(p) # ""
       THEN Return(Uncaught(PromptFailure(p)))
       ELSE pc' = "bulk_model" /\ result' = result
    /\ UNCHANGED <<response_text, analysis, triage, events, campaigns, idx,
                   backend_actions, calls, model_calls>>

\* agent(prompt), extract_json_from_response(result.message) and the return;
\* response_text holds result.message
BulkInvokeModel(resp) ==
    /\ pc = "bulk_model"
    /\ model_calls' = model_calls + 1
    /\ IF resp.raised
       THEN /\ Return(Uncaught("AgentError"))
            /\ UNCHANGED <<response_text, analysis>>
       ELSE /\ response_text' = resp.text
            /\ analysis' = extract_json_from_response(resp.text)
            /\ Return(extract_json_from_response(resp.text))
    /\ UNCHANGED <<payload, triage, events, campaigns, idx, backend_actions, calls>>

\* the free texts of an analysis: every text of up to MaxTextLen tokens
TextTokens == {"x", FENCE, JSONTAG, QUOTE, "}"}
RECURSIVE TextsOfLen(_)
TextsOfLen(n) ==
    IF n = 0 THEN {<<>>}
    ELSE {Append(s, c) : s \in TextsOfLen(n - 1), c \in TextTokens}
FreeTexts == UNION {TextsOfLen(n) : n \in 0..MaxTextLen}

BulkAnalysis(sev, narrative) ==
    Dict(<< <<"severity_rating", sev>>,
            <<"attack_type", JStr(<<"SQLi">>)>>,
            <<"rating_reason", JStr(<<"r">>)>>,
            <<"security_analysis", JStr(narrative)>>,
            <<"recommended_actions", JStr(<<"Block", "IP">>)>> >>)
\* the analyses with every required field and an integer severity of the scale
WellFormedAnalyses ==
    {BulkAnalysis(JInt(n), narrative) : n \in 0..MaxSeverity, narrative \in FreeTexts}
    \cup {Dict(<< <<"severity_rating", JInt(n)>>,
                  <<"security_analysis", JStr(<<"x">>)>>,
                  <<"recommended_actions", JStr(narrative)>> >>) :
             n \in 0..MaxSeverity, narrative \in FreeTexts}
\* the JSON values the bulk agent may answer with
BulkAnswers ==
    WellFormedAnalyses
    \cup {BulkAnalysis(sev, <<"x">>) : sev \in SeverityValues \cup {JBool(FALSE)}}
    \cup AnalysisObjects
    \cup {Dict(<< <<"severity_rating", JInt(4)>>,
                  <<"security_analysis", JStr(<<"x">>)>>,
                  <<"recommended_actions", JStr(<<"y">>)>>,
                  <<"error", JStr(<<"none">>)>> >>),
          JList(<< JStr(<<"severity_rating">>), JStr(<<"security_analysis">>),
                   JStr(<<"recommended_actions">>) >>),
          JList(<<>>),
          JStr(<<"severity_rating", "security_analysis", "recommended_actions">>),
          JInt(5), JNull, JBool(TRUE)}
\* a block of text in a fence, tagged json or untagged
Fenced(t, tagged) ==
    (IF tagged THEN <<FENCE, JSONTAG>> ELSE <<FENCE>>) \o t \o <<FENCE>>
BulkTexts ==
    UNION {Wrappings(Dumps(a)) : a \in BulkAnswers} \cup Unparseable
\* result.message of the agent: an assistant message with one text block
AgentMessage(text) ==
    Dict(<< <<"role", JStr(<<"assistant">>)>>,
            <<"content", JList(<< Dict(<< <<"text", JStr(text)>> >>) >>)>> >>)
BulkMessages ==
    {AgentMessage(t) : t \in BulkTexts}
    \cup {JStr(Fenced(Dumps(a), TRUE)) : a \in {BulkAnalysis(JInt(n), <<"x">>) : n \in 0..1}}
    \cup {Dict(<< <<"role", JStr(<<"assistant">>)>> >>),
          Dict(<< <<"content", JList(<<>>)>> >>),
          Dict(<< <<"content", JList(<< Dict(<< <<"toolUse", JNull>> >>) >>)>> >>),
          Dict(<< <<"content", JList(<< JStr(<<"x">>) >>)>> >>),
          Dict(<< <<"content", JList(<< Dict(<< <<"text", JNull>> >>) >>)>> >>),
          Dict(<< <<"content", JList(<< Dict(<< <<"text", JList(<<>>)>> >>) >>)>> >>),
          Dict(<< <<"content", JNull>> >>),
          Dict(<< <<"content", JStr(<<"x">>)>> >>),
          Dict(<< <<"content", JStr(<<>>)>> >>),
          Dict(<< <<"content", Dict(<< <<"text", JStr(<<"x">>)>> >>)>> >>),
          JInt(5), JNull, JBool(TRUE), JFloat(25), JList(<<>>), JList(<<JInt(1)>>),
          JList(<<JStr(<<"severity_rating">>)>>), JStr(<<>>)}
BulkResponses == {Raised} \cup {Returned(m) : m \in BulkMessages}

BulkPayloads ==
    {Dict(<< <<"summary", Dict(<< <<"source_ip", JStr(<<"10.0.0.1">>)>>,
                                  <<"unique_uris", JList(<<JStr(<<"/a">>)>>)>> >>)>>,
             <<"events", JList(<<EventOf(1)>>)>> >>),
     Dict(<<>>),
     JStr(<<"p">>),
     Dict(<< <<"summary", JNull>> >>),
     Dict(<< <<"summary", Dict(<< <<"unique_uris", JInt(3)>> >>)>> >>),
     Dict(<< <<"summary", Dict(<< <<"unique_rules", JList(<<JInt(1)>>)>> >>)>> >>),
     Dict(<< <<"summary", Dict(<< <<"time_range", JStr(<<"now">>)>> >>)>> >>),
     Dict(<< <<"events", JList(<<JInt(1)>>)>> >>),
     Dict(<< <<"events", JInt(1)>> >>)}

BulkNext ==
    \/ \E p \in BulkPayloads : BulkInvoke(p)
    \/ \E resp \in BulkResponses : BulkInvokeModel(resp)
    \/ Respond

BulkSpec == Init /\ [][BulkNext]_vars

----------------------------------------------------------------------------
(* Properties *)

\* the request in progress is an analyze request / a monitor request
InAnalyze == IsDict(payload) /\ Get(payload, "action", Analyze) = Analyze
InMonitor == IsDict(payload) /\ Get(payload, "action", Analyze) = Monitor
\* the monitor run has reached the loop over the campaigns
InLoop == InMonitor /\ Sized(campaigns)
CampaignTools == {"bulk_update_events", "create_campaign_escalation"}
WriteTools == CampaignTools \cup {"update_event_analysis", "create_escalation"}
\* the positions in calls of the calls of a tool (for campaign i)
CallsOf(tool) == {j \in DOMAIN calls : calls[j].tool = tool}
CallsFor(tool, i) == {j \in CallsOf(tool) : calls[j].campaign = i}
WriteCalls == {j \in DOMAIN calls : calls[j].tool \in WriteTools}
\* the campaign a call of a campaign tool was made for
CampaignOf(j) == Items(campaigns)[calls[j].campaign]
IsSeverity(x) == x.k = "int" /\ x.v \in 0..MaxSeverity
\* the analysis has a severity, and it is an integer of the scale
HasSeverity(a) == Has(a, "severity_rating") /\ IsSeverity(a.v[Key("severity_rating")])
ValidAnalysis(a) ==
    /\ HasSeverity(a)
    /\ Has(a, "security_analysis")
    /\ Has(a, "recommended_actions")

\* C1: for every integer severity in 0..5 the triage decision of the analyze
\* workflow is the row of the decision table: 0, 1, 2 give auto_close, closed,
\* no escalation, no notification and no notification type; 3 gives monitor,
\* open, no escalation, no notification; 4, 5 give escalate, investigating,
\* escalation, notification of type critical; and a decision is always made.
C1_TriageTable ==
    HasSeverity(analysis) =>
        LET sev == analysis.v[Key("severity_rating")].v
        IN /\ triage # NoTriage
           /\ sev \in {0, 1, 2} =>
                /\ triage = [action_taken |-> "auto_close", status_update |-> "closed",
                             escalate |-> FALSE, notification_required |-> FALSE]
                /\ "notification_type" \notin DOMAIN triage
           /\ sev = 3 =>
                triage = [action_taken |-> "monitor", status_update |-> "open",
                          escalate |-> FALSE, notification_required |-> FALSE]
           /\ sev \in {4, 5} =>
                triage = [action_taken |-> "escalate", status_update |-> "investigating",
                          escalate |-> TRUE, notification_required |-> TRUE,
                          notification_type |-> "critical"]
C1_Witness ==
    /\ pc = "analyze_backend"
    /\ HasSeverity(analysis)
    /\ analysis.v[Key("severity_rating")] = JInt(2)
    /\ triage.action_taken = "auto_close"

\* C2: in the analyze workflow, when the output of the model cannot be parsed,
\* lacks a required field or carries a severity that is not an integer in 0..5,
\* no backend call is issued and the request returns an error summary.
C2_InvalidAnalysisRejected ==
    (InAnalyze /\ model_calls = 1 /\ ~ValidAnalysis(analysis)) =>
        /\ calls = <<>>
        /\ pc = "done" => result.status = "error"

\* C3: a monitor request whose fetch of open events gives an empty list ends
\* with status success and campaigns_detected 0, with no model invocation and
\* no backend write call.
C3_EmptyFetch ==
    (InMonitor /\ events = JList(<<>>)) =>
        /\ pc = "done"
        /\ result.status = "success"
        /\ "campaigns_detected" \in DOMAIN result
        /\ result.campaigns_detected = JInt(0)
        /\ model_calls = 0
        /\ WriteCalls = {}
C3_Witness ==
    /\ InMonitor
    /\ events = JList(<<>>)
    /\ pc = "done"
    /\ CallsOf("get_open_events") # {}

C5_EmptyCampaignDiscarded ==
    InLoop =>
        \A j \in DOMAIN calls :
            calls[j].tool \in CampaignTools =>
                PyLen(Get(CampaignOf(j), "affected_event_ids", JList(<<>>))) > 0

\* C6: in the monitor workflow the status sent in the bulk update of a campaign
\* is the status of the triage decision of its severity (closed for 0..2, open
\* for 3, investigating for 4..5), and a campaign escalation is created only
\* when that decision escalates (severity 4 or 5).
C6_CampaignTriage ==
    InLoop =>
        \A j \in DOMAIN calls :
            (calls[j].tool \in CampaignTools /\ IsSeverity(calls[j].severity)) =>
                LET sev == calls[j].severity.v
                IN /\ calls[j].tool = "bulk_update_events" =>
                        calls[j].status =
                            (IF sev <= 2 THEN "closed"
                             ELSE IF sev = 3 THEN "open" ELSE "investigating")
                   /\ calls[j].tool = "create_campaign_escalation" => sev \in {4, 5}

\* the ids of the events of the batch fetched at the start of the run
BatchIds == {Get(events.v[i], "id", JNull) : i \in 1..Len(events.v)}

\* C7: in the monitor workflow every event id sent in a bulk-update or
\* campaign-escalation call is the id of an event of the batch of open events
\* fetched at the start of the same run.
C7_IdsInBatch ==
    InLoop =>
        \A j \in DOMAIN calls :
            (calls[j].tool \in CampaignTools /\ calls[j].target.k = "list") =>
                \A n \in 1..Len(calls[j].target.v) : calls[j].target.v[n] \in BatchIds

\* C8: in the monitor workflow a candidate campaign whose severity is not an
\* integer in 0..5 is not accepted: no bulk-update or escalation call carries
\* a severity outside 0..5.
C8_CampaignSeverityValid ==
    InLoop =>
        \A j \in DOMAIN calls :
            calls[j].tool \in CampaignTools => IsSeverity(calls[j].severity)

\* a candidate campaign that is an object with a non-empty list of event ids
WellFormedCampaign(c) ==
    /\ IsDict(c)
    /\ Get(c, "affected_event_ids", JList(<<>>)).k = "list"
    /\ PyLen(Get(c, "affected_event_ids", JList(<<>>))) > 0

\* C9: in the monitor workflow a malformed candidate campaign is skipped: when
\* the run over a campaign list ends it returns a success summary, and every
\* well-formed campaign of the list, before or after a malformed one, has had
\* its bulk update.
C9_CampaignIsolation ==
    (InLoop /\ campaigns.k = "list" /\ pc = "done") =>
        /\ result.status = "success"
        /\ \A i \in 1..Len(Items(campaigns)) :
              WellFormedCampaign(Items(campaigns)[i]) =>
                  CallsFor("bulk_update_events", i) # {}

\* C10: a request whose action is neither analyze nor monitor returns a summary
\* with status error and a message naming the unsupported action, and no model
\* invocation and no backend call occurs.
C10_UnsupportedAction ==
    (IsDict(payload) /\ ~InAnalyze /\ ~InMonitor) =>
        /\ pc = "done"
        /\ result = [status |-> "error",
                     message |-> Message("Unsupported action: ",
                                         Get(payload, "action", Analyze))]
        /\ model_calls = 0
        /\ calls = <<>>
C10_Witness ==
    /\ IsDict(payload)
    /\ Get(payload, "action", Analyze) = JStr(<<"delete">>)
    /\ Has(payload, "event")
    /\ pc = "done"
    /\ result.status = "error"

C14_AnalyzeCallOrder ==
    (InAnalyze /\ pc = "done" /\ ValidAnalysis(analysis)) =>
        LET severity == analysis.v[Key("severity_rating")]
            updates == CallsOf("update_event_analysis")
            escalations == CallsOf("create_escalation")
        IN /\ Cardinality(updates) = 1
           /\ \A j \in updates :
                 /\ calls[j].severity = severity
                 /\ calls[j].status = (IF severity.v <= 2 THEN "closed"
                                       ELSE IF severity.v = 3 THEN "open"
                                       ELSE "investigating")
           /\ Cardinality(escalations) = (IF severity.v >= 4 THEN 1 ELSE 0)
           /\ \A j \in escalations : \A i \in updates : i < j
           /\ DOMAIN calls = updates \cup escalations
\* a run of severity 5: the update, then the escalation
C14_Witness ==
    /\ InAnalyze
    /\ pc = "done"
    /\ ValidAnalysis(analysis)
    /\ analysis.v[Key("severity_rating")] = JInt(5)
    /\ Len(calls) = 2
    /\ calls[1].tool = "update_event_analysis"
    /\ calls[1].status = "investigating"
    /\ calls[2].tool = "create_escalation"

\* the sum of f over the positions 1..n of the calls
RECURSIVE SumCalls(_, _)
SumCalls(f(_), n) == IF n = 0 THEN 0 ELSE f(n) + SumCalls(f, n - 1)
\* the events a call counts for: the size of the id list of a bulk update that
\* succeeded
UpdatedBy(j) ==
    IF calls[j].tool = "bulk_update_events" /\ calls[j].ok
    THEN PyLen(calls[j].target) ELSE 0
EscalatedBy(j) ==
    IF calls[j].tool = "create_campaign_escalation" /\ calls[j].ok THEN 1 ELSE 0

IsErrorRecord(r) == IsDict(r) /\ DOMAIN r.v = {Key("error"), Key("raw_response")}
\* the first word of the error of an error record
ErrorKind(r) == r.v[Key("error")].v[1]

\* C12: extract_json_from_response never raises: whatever message the agent
\* returned, the request ends with the record the function returned, and a
\* record that is not an error record has the three required fields and an
\* integer severity in 0..5.
C12_ExtractionValidates ==
    (pc = "done" /\ analysis # JNull) =>
        /\ result = analysis
        /\ IsDict(result)
        /\ \/ /\ IsErrorRecord(result)
              /\ ErrorKind(result) \in {"JSON parsing failed: ",
                                        "Missing required field: ",
                                        "Invalid severity rating: "}
           \/ ValidAnalysis(result)

\* C13: extraction round trip.  When the agent answers with the JSON text of a
\* well-formed analysis (required fields present, integer severity in 0..5,
\* any free text) inside a fenced block, tagged json or untagged, the record
\* extract_json_from_response returns is that analysis.
C13_RoundTrip ==
    (pc = "done" /\ analysis # JNull) =>
        \A o \in WellFormedAnalyses : \A tagged \in BOOLEAN :
            response_text = AgentMessage(Fenced(Dumps(o), tagged)) => result = o

=============================================================================
